---- MODULE Spec2Model ----
(***************************************************************************)
(* Model of internal/gitops/apply.go: ApplyChanges reconciles a local tree *)
(* of policy files and auth role files against a remote backend.  The     *)
(* policy phase and each mount of the auth phase compute a batch of       *)
(* writes and deletes and run it on an errgroup.Group limited to 5        *)
(* goroutines.                                                             *)
(*                                                                         *)
(* A remote operation is a pair <<kind, name>>, kind "write" or "delete". *)
(* Every goroutine of a batch goes through the statuses                    *)
(*   "todo"    not yet handed to eg.Go                                     *)
(*   "calling" goroutine started, remote call in flight                    *)
(*   "fail"    remote call returned an error, not yet given to the group   *)
(*   "doneOk" / "doneFail"  goroutine finished, slot released              *)
(***************************************************************************)
EXTENDS Integers, Sequences, FiniteSets, TLC

\* ------------------------------------------------------------------ bounds

\* Number of non-protected policy names of the general scenarios.
NumPolicies == 3
\* Number of local policies of the worker-pool scenario (more than Limit).
PoolSize == 6
\* Remote calls the backend may fail in one behaviour.
MaxFaults == 2
\* ApplyChanges invocations in one behaviour (the second re-applies the tree).
MaxRuns == 2

\* -------------------------------------------------------- program constants

\* eg.SetLimit(5) / egMount.SetLimit(5)
Limit == 5

NameTable == <<"p1", "p2", "p3", "p4", "p5", "p6", "p7", "p8", "p9">>

NameSet(n) == {NameTable[i] : i \in 1..n}

\* ------------------------------------------------------------------ helpers

NoOp == <<>>
NoBatch == [o \in {} |-> "todo"]
EmptyMap == [n \in {} |-> ""]

Writes(names) == {<<"write", n>> : n \in names}
Deletes(names) == {<<"delete", n>> : n \in names}

\* f with key k removed
Remove(f, k) == [x \in (DOMAIN f) \ {k} |-> f[x]]
\* f with key k set to v
Put(f, k, v) == [x \in (DOMAIN f) \cup {k} |-> IF x = k THEN v ELSE f[x]]

\* ------------------------------------------------------- local file trees

\* A directory is [exists, entries]; entries lists its files in the order
\* filepath.WalkDir visits them, each [name, readable, content].
MissingDir == [exists |-> FALSE, entries |-> <<>>]
Dir(entries) == [exists |-> TRUE, entries |-> entries]
File(name, content) == [name |-> name, readable |-> TRUE, content |-> content]
Unreadable(name, content) == [name |-> name, readable |-> FALSE, content |-> content]

FileNames(dir) == {dir.entries[i].name : i \in 1..Len(dir.entries)}

\* Contents of role files.
JsonP1 == "{\"token_policies\": [\"p1\"]}"
JsonP1Compact == "{\"token_policies\":[\"p1\"]}"
JsonP3 == "{\"token_policies\": [\"p3\"]}"
JsonArray == "[\"p1\"]"
NotJson == "{token_policies"

RoleData(policies) == [token_policies |-> policies]

\* json.Unmarshal(content, &roleData) into a map[string]interface{}
Unmarshal(content) ==
  CASE content = JsonP1 -> [ok |-> TRUE, data |-> RoleData(<<"p1">>)]
    [] content = JsonP1Compact -> [ok |-> TRUE, data |-> RoleData(<<"p1">>)]
    [] content = JsonP3 -> [ok |-> TRUE, data |-> RoleData(<<"p3">>)]
    [] OTHER -> [ok |-> FALSE, data |-> RoleData(<<>>)]

\* The WalkDir callback of applyPolicyChanges over the files from index i on:
\* the walk stops at the first file that cannot be read.
RECURSIVE WalkPolicyFiles(_, _, _)
WalkPolicyFiles(entries, i, acc) ==
  IF i > Len(entries) THEN [err |-> "", files |-> acc]
  ELSE IF ~entries[i].readable THEN [err |-> "read", files |-> acc]
  ELSE WalkPolicyFiles(entries, i + 1, Put(acc, entries[i].name, entries[i].content))

\* filepath.WalkDir(policyDirectory, ...): a missing root is handed to the
\* callback as an error, which the callback returns.
WalkPolicyDir(dir) ==
  IF ~dir.exists THEN [err |-> "notexist", files |-> EmptyMap]
  ELSE WalkPolicyFiles(dir.entries, 1, EmptyMap)

\* The WalkDir callback of applyAuthChanges: read, then decode.
RECURSIVE WalkRoleFiles(_, _, _)
WalkRoleFiles(entries, i, acc) ==
  IF i > Len(entries) THEN [err |-> "", files |-> acc]
  ELSE IF ~entries[i].readable THEN [err |-> "read", files |-> acc]
  ELSE IF ~Unmarshal(entries[i].content).ok THEN [err |-> "decode", files |-> acc]
  ELSE WalkRoleFiles(entries, i + 1,
                     Put(acc, entries[i].name, Unmarshal(entries[i].content).data))

WalkRoleDir(dir) ==
  IF ~dir.exists THEN [err |-> "notexist", files |-> EmptyMap]
  ELSE WalkRoleFiles(dir.entries, 1, EmptyMap)

\* if err != nil { return ... } after the policy walk
PolicyWalkFatal(err) == err # ""

RoleWalkFatalAnyError(err) == err # ""
RoleWalkFatalOnlyRead(err) == err = "read"
\* if err != nil && !os.IsNotExist(err) { return ... } after the role walk
RoleWalkFatal(err) == err # "" /\ err # "notexist"

\* ------------------------------------------------------------ the diff

OnlyRootProtected(name) == name = "root"
\* existingPolicy == "root" || existingPolicy == "default"
IsProtected(name) == name = "root" \/ name = "default"

PolicyDeletesIgnoringLocal(existing, local) ==
  Deletes({n \in existing : ~IsProtected(n)})
\* The delete loop of applyPolicyChanges.
PolicyDeletes(existing, local) ==
  Deletes({n \in existing : ~IsProtected(n) /\ n \notin DOMAIN local})

PolicyWritesSkippingProtected(local) ==
  Writes({n \in DOMAIN local : ~IsProtected(n)})
\* The write loop of applyPolicyChanges.
PolicyWrites(local) == Writes(DOMAIN local)

RoleDeletesIgnoringLocal(existing, local) == Deletes(existing)
RoleDeletesProtected(existing, local) ==
  Deletes({n \in existing : ~IsProtected(n) /\ n \notin DOMAIN local})
\* The delete loop of applyAuthChanges: no name is exempt.
RoleDeletes(existing, local) ==
  Deletes({n \in existing : n \notin DOMAIN local})

RoleWritesSkippingProtected(local) ==
  Writes({n \in DOMAIN local : ~IsProtected(n)})
\* The write loop of applyAuthChanges.
RoleWrites(local) == Writes(DOMAIN local)

\* --------------------------------------------------------- mount classifier

Unsupported == ""

rolePathPrefixDefaulting(type) ==
  CASE type \in {"azure", "kubernetes", "oidc", "oci", "saml", "approle"} -> "role"
    [] type \in {"kerberos", "ldap", "okta"} -> "groups"
    [] type = "radius" -> "users"
    [] OTHER -> "roles"
rolePathPrefixLdapUsers(type) ==
  CASE type \in {"aws", "gcp"} -> "roles"
    [] type \in {"azure", "kubernetes", "oidc", "oci", "saml", "approle"} -> "role"
    [] type = "kerberos" -> "groups"
    [] type = "okta" -> "groups"
    [] type \in {"radius", "ldap"} -> "users"
    [] type = "token" -> "roles"
    [] OTHER -> Unsupported
\* switch mount.Type
rolePathPrefix(type) ==
  CASE type \in {"aws", "gcp"} -> "roles"
    [] type \in {"azure", "kubernetes", "oidc", "oci", "saml", "approle"} -> "role"
    [] type = "kerberos" -> "groups"
    [] type \in {"ldap", "okta"} -> "groups"
    [] type = "radius" -> "users"
    [] type = "token" -> "roles"
    [] OTHER -> Unsupported

\* strings.TrimSuffix(mountName, "/") on the keys ListAuth returns
TrimSuffix(mountKey) ==
  CASE mountKey = "approle/" -> "approle"
    [] mountKey = "ldap/" -> "ldap"
    [] mountKey = "userpass/" -> "userpass"
    [] mountKey = "m/" -> "m"
    [] OTHER -> mountKey

\* The backend's key of the object auth/<mount>/<segment>/<name>.
RolePath(mount, segment, name) == <<mount, segment, name>>

WritePathShared(mount, segment, name) == RolePath(mount, segment, "r1")
WritePathRoleSegment(mount, segment, name) == RolePath(mount, "role", name)
\* writePath := fmt.Sprintf("auth/%s/%s/%s", mountName, rolePathPrefix, name)
WritePath(mount, segment, name) == RolePath(mount, segment, name)

\* deletePath := fmt.Sprintf("auth/%s/%s/%s", mountName, rolePathPrefix, existingRole)
DeletePath(mount, segment, name) == RolePath(mount, segment, name)

\* listPath := fmt.Sprintf("auth/%s/%s", mountName, rolePathPrefix)
ListPath(mount, segment) == <<mount, segment>>

\* The names the backend holds under a list path.
KeysAt(roles, path) ==
  {p[3] : p \in {q \in DOMAIN roles : <<q[1], q[2]>> = path}}

RoleListFatalOnAbsent(callFailed, secret) == callFailed \/ ~secret.present
\* if err != nil { return ... } after the list call: the response is not looked at
RoleListFatal(callFailed, secret) == callFailed

\* existingRoles from the list response (nil secret, nil data, no keys: empty)
ExistingRoles(secret) ==
  IF secret.present /\ secret.hasKeys THEN secret.keys ELSE {}

\* ------------------------------------------------------------- errgroup

SlotFreeOffByOne(active) == active <= Limit
\* eg.SetLimit(5): eg.Go blocks while 5 goroutines of the group are active.
SlotFree(active) == active < Limit

ActiveNeverReleased(s) == {o \in DOMAIN s : s[o] # "todo"}
\* The operations of a batch whose goroutine holds a slot of the group.
Active(s) == {o \in DOMAIN s : s[o] \in {"calling", "fail"}}
Todo(s) == {o \in DOMAIN s : s[o] = "todo"}

WaitDoneNoWait(s, err) == TRUE
WaitDoneFailFast(s, err) == err # NoOp \/ \A o \in DOMAIN s : s[o] \in {"doneOk", "doneFail"}
\* eg.Wait() returns once every goroutine handed to eg.Go has finished.
WaitDone(s, err) == \A o \in DOMAIN s : s[o] \in {"doneOk", "doneFail"}

ErrLastWins(err, op) == op
\* g.errOnce.Do: only the first error of the group is kept.
ErrOnce(err, op) == IF err = NoOp THEN op ELSE err

WaitErrDropped(err) == NoOp
\* if err := eg.Wait(); err != nil { return err }
WaitErr(err) == err

\* ------------------------------------------------------------------ state

VARIABLES
  policyDir,        \* the local policy directory
  authDir,          \* <<mount, segment>> -> the local directory of role files
  remotePolicies,   \* backend: policy name -> body
  mountTypes,       \* backend: auth mount key (with trailing "/") -> type
  remoteRoles,      \* backend: <<mount, segment, name>> -> data
  pc,               \* position of ApplyChanges
  run,              \* number of the current ApplyChanges invocation
  result,           \* what ApplyChanges returned
  existingPolicies, \* applyPolicyChanges: existingPolicies
  localPolicies,    \* applyPolicyChanges: localPolicies
  mountsLeft,       \* applyAuthChanges: mounts the range loop has not visited
  mountName,        \* applyAuthChanges: mountName
  prefix,           \* applyAuthChanges: rolePathPrefix
  localRoles,       \* applyAuthChanges: localRoles
  secret,           \* applyAuthChanges: the list response
  existingRoles,    \* applyAuthChanges: existingRoles
  cat,              \* the category of the current batch: "policy" or a mount
  st,               \* operation of the current batch -> status
  egErr,            \* the group's err field (NoOp: nil)
  waited,           \* eg.Wait() of the current batch has returned
  calls,            \* operation of the current batch -> remote calls made
  firstFail,        \* the first operation of the batch whose call failed
  faults,           \* remote calls the backend has failed
  log,              \* remote calls made: <<run, category, kind, name>>
  snapPolicies,     \* remotePolicies when the current run started
  snapRoles,        \* remoteRoles when the current run started
  snapFaults        \* faults when the current run started

envVars == <<policyDir, authDir, mountTypes>>
remoteVars == <<remotePolicies, remoteRoles>>
policyVars == <<existingPolicies, localPolicies>>
authVars == <<mountsLeft, mountName, prefix, localRoles, secret, existingRoles>>
batchVars == <<cat, st, egErr, waited, calls, firstFail>>
snapVars == <<snapPolicies, snapRoles, snapFaults>>
vars == <<policyDir, authDir, remotePolicies, mountTypes, remoteRoles, pc, run,
          result, existingPolicies, localPolicies, mountsLeft, mountName, prefix,
          localRoles, secret, existingRoles, cat, st, egErr, waited, calls,
          firstFail, faults, log, snapPolicies, snapRoles, snapFaults>>

Running == [status |-> "running", phase |-> "", cause |-> NoOp]
Success == [status |-> "nil", phase |-> "", cause |-> NoOp]
\* fmt.Errorf("error applying policy changes: %w", err) and its auth twin
Failure(phase, cause) == [status |-> "error", phase |-> phase, cause |-> cause]

NoSecret == [present |-> FALSE, hasKeys |-> FALSE, keys |-> {}]

LocalDir(tree, mount, segment) ==
  IF <<mount, segment>> \in DOMAIN tree THEN tree[<<mount, segment>>] ELSE MissingDir

\* The program state at the entry of ApplyChanges.
Entry ==
  /\ pc = "listPolicies"
  /\ result = Running
  /\ existingPolicies = {}
  /\ localPolicies = EmptyMap
  /\ mountsLeft = {}
  /\ mountName = ""
  /\ prefix = ""
  /\ localRoles = EmptyMap
  /\ secret = NoSecret
  /\ existingRoles = {}
  /\ cat = ""
  /\ st = NoBatch
  /\ egErr = NoOp
  /\ waited = FALSE
  /\ calls = NoBatch
  /\ firstFail = NoOp

\* -------------------------------------------------------------- scenarios

LocalBody(n) == <<"local", n>>
RemoteBody(n) == <<"remote", n>>
OldData == RoleData(<<"old">>)

\* File names in the lexical order of a directory walk.
WalkOrder == <<"default">> \o NameTable \o <<"root">>

PolicyFiles(names) ==
  LET Keep(n) == n \in names
      ordered == SelectSeq(WalkOrder, Keep)
  IN [i \in 1..Len(ordered) |-> File(ordered[i], LocalBody(ordered[i]))]

RoleFiles(names, content) ==
  LET Keep(n) == n \in names
      ordered == SelectSeq(WalkOrder, Keep)
  IN [i \in 1..Len(ordered) |-> File(ordered[i], content)]

\* Local policy directories over a set of names: missing, every subset of
\* the names as readable files, and one with a file that cannot be read.
PolicyDirs(names) ==
  {MissingDir}
    \cup {Dir(PolicyFiles(S)) : S \in SUBSET names}
    \cup {Dir(<<File("p1", LocalBody("p1")), Unreadable("p2", LocalBody("p2"))>>)}

RemotePolicySets(names) == {[n \in S |-> RemoteBody(n)] : S \in SUBSET names}

RoleDirs ==
  { MissingDir,
    Dir(<<>>),
    Dir(<<File("r1", JsonP1)>>),
    Dir(<<File("default", JsonP1Compact), File("r1", JsonP3)>>),
    Dir(<<File("r1", JsonP1), File("r2", NotJson)>>),
    Dir(<<File("r1", JsonP1), File("r2", JsonArray)>>),
    Dir(<<File("r1", JsonP1), Unreadable("r2", JsonP1)>>) }

Roles(mount, segment, names) ==
  [p \in {RolePath(mount, segment, n) : n \in names} |-> OldData]

\* The backend's auth mounts: ListAuth keys carry a trailing "/".
Mounts == [m \in {"approle/", "ldap/", "userpass/"} |->
             CASE m = "approle/" -> "approle"
               [] m = "ldap/" -> "ldap"
               [] OTHER -> "userpass"]

UserpassLocal == [p \in {<<"userpass", "users">>, <<"userpass", "roles">>} |->
                    Dir(<<File("u1", JsonP1)>>)]
UserpassRemote == Roles("userpass", "users", {"u1"})

AuthOfPolicyScenarios ==
  /\ mountTypes = [m \in {"approle/", "userpass/"} |-> Mounts[m]]
  /\ authDir = (<<"approle", "role">> :> Dir(<<File("r1", JsonP1)>>)) @@ UserpassLocal
  /\ remoteRoles = Roles("approle", "role", {"r2"}) @@ UserpassRemote

\* Policy scenarios with the protected names: every local policy directory
\* against every remote policy set over "root", "default" and one more name.
InitProtected ==
  /\ policyDir \in PolicyDirs({"root", "default", "p1"})
  /\ remotePolicies \in RemotePolicySets({"root", "default", "p1"})
  /\ AuthOfPolicyScenarios

\* Policy scenarios with ordinary names: every local directory against every
\* remote set over NumPolicies names, "root" and "default" present remotely.
InitPolicy ==
  /\ policyDir \in PolicyDirs(NameSet(NumPolicies))
  /\ remotePolicies \in {r @@ [n \in {"root", "default"} |-> RemoteBody(n)] :
                           r \in RemotePolicySets(NameSet(NumPolicies))}
  /\ AuthOfPolicyScenarios

\* Auth scenarios: a supported mount with every kind of local directory
\* against remote role sets that include the names "root" and "default".
InitAuth ==
  /\ policyDir = Dir(PolicyFiles({"p1"}))
  /\ remotePolicies = [n \in {"root", "default"} |-> RemoteBody(n)]
  /\ mountTypes = Mounts
  /\ \E d1 \in RoleDirs, d2 \in {MissingDir, Dir(<<File("g1", JsonP1)>>)},
        r1 \in SUBSET {"r1", "default"}, r2 \in {{}, {"g1", "root"}} :
       /\ authDir = (<<"approle", "role">> :> d1) @@ (<<"ldap", "groups">> :> d2)
                      @@ UserpassLocal
       /\ remoteRoles = Roles("approle", "role", r1) @@ Roles("ldap", "groups", r2)
                          @@ UserpassRemote

\* The types a mount is given in the classifier scenarios: the thirteen the
\* switch names and others it does not, some differing from a named one only
\* in case or by a trailing character.
MountTypeInputs ==
  {"aws", "gcp", "azure", "kubernetes", "oidc", "oci", "saml", "approle", "kerberos",
   "ldap", "okta", "radius", "token"}
    \cup {"userpass", "cert", "github", "jwt", "", "AWS", "ldap/", "roles", "role"}

Segments == {"roles", "role", "groups", "users"}

\* Classifier scenarios: one mount "m/" of every type of MountTypeInputs; each
\* of the four segments has a local directory with one file, named after the
\* segment, and one remote object "old".
InitTypes ==
  /\ policyDir = Dir(PolicyFiles({"p1"}))
  /\ remotePolicies = [n \in {"root", "default"} |-> RemoteBody(n)]
  /\ mountTypes \in {[m \in {"m/"} |-> t] : t \in MountTypeInputs}
  /\ authDir = [d \in {<<"m", g>> : g \in Segments} |-> Dir(<<File(d[2], JsonP1)>>)]
  /\ remoteRoles = [q \in {RolePath("m", g, "old") : g \in Segments} |-> OldData]

\* Worker-pool scenarios: batches of more operations than the group's limit.
InitPool ==
  /\ policyDir = Dir(PolicyFiles(NameSet(PoolSize)))
  /\ remotePolicies = [n \in {"root", NameTable[PoolSize + 1]} |-> RemoteBody(n)]
  /\ mountTypes = [m \in {"approle/", "userpass/"} |-> Mounts[m]]
  /\ authDir = (<<"approle", "role">> :> Dir(RoleFiles(NameSet(PoolSize - 1), JsonP1)))
                 @@ UserpassLocal
  /\ remoteRoles = Roles("approle", "role", {"p1", NameTable[PoolSize]}) @@ UserpassRemote

Init ==
  /\ InitProtected \/ InitPolicy \/ InitAuth \/ InitPool \/ InitTypes
  /\ Entry
  /\ run = 1
  /\ faults = 0
  /\ log = {}
  /\ snapPolicies = remotePolicies
  /\ snapRoles = remoteRoles
  /\ snapFaults = 0

\* ---------------------------------------------------------- policy phase

Logged(category, kind, name) == log \cup {<<run, category, kind, name>>}

NewBatch(category, ops) ==
  /\ cat' = category
  /\ st' = [o \in ops |-> "todo"]
  /\ calls' = [o \in ops |-> 0]
  /\ egErr' = NoOp
  /\ waited' = FALSE
  /\ firstFail' = NoOp

\* A remote call fails: the goroutine's f() returns an error.
CallFails(op) ==
  /\ faults < MaxFaults
  /\ faults' = faults + 1
  /\ st' = [st EXCEPT ![op] = "fail"]
  /\ firstFail' = IF firstFail = NoOp THEN op ELSE firstFail

\* A remote call succeeds: f() returns nil, nothing is recorded and the
\* goroutine ends, releasing its slot.
CallSucceeds(op) ==
  /\ st' = [st EXCEPT ![op] = "doneOk"]
  /\ UNCHANGED <<faults, firstFail>>

\* The goroutine of a failed call ends: the first error of the group is kept
\* and the slot released.
GoroutineEnds(op) ==
  /\ st[op] = "fail"
  /\ st' = [st EXCEPT ![op] = "doneFail"]
  /\ egErr' = ErrOnce(egErr, op)

\* vc.Sys().ListPoliciesWithContext(ctx)
ListPolicies ==
  /\ pc = "listPolicies"
  /\ log' = Logged("policy", "list", "")
  /\ \/ /\ existingPolicies' = DOMAIN remotePolicies
        /\ pc' = "walkPolicies"
        /\ UNCHANGED <<result, faults>>
     \/ /\ faults < MaxFaults
        /\ faults' = faults + 1
        /\ result' = Failure("policy", <<"list", "policy">>)
        /\ pc' = "done"
        /\ UNCHANGED existingPolicies
  /\ UNCHANGED <<envVars, remoteVars, run, localPolicies, authVars, batchVars, snapVars>>

\* filepath.WalkDir(policyDirectory, ...) and the check of its error
ReadPolicies ==
  /\ pc = "walkPolicies"
  /\ LET w == WalkPolicyDir(policyDir) IN
       IF PolicyWalkFatal(w.err)
       THEN /\ result' = Failure("policy", <<"walk", w.err, "policy">>)
            /\ pc' = "done"
            /\ UNCHANGED <<localPolicies, batchVars>>
       ELSE /\ localPolicies' = w.files
            /\ NewBatch("policy", PolicyWrites(w.files)
                                    \cup PolicyDeletes(existingPolicies, w.files))
            /\ pc' = "policyBatch"
            /\ UNCHANGED result
  /\ UNCHANGED <<envVars, remoteVars, run, existingPolicies, authVars, faults, log,
                 snapVars>>

\* eg.Go(...) of the two loops: the writes first, then the deletes.
PolicyGo(op) ==
  /\ pc = "policyBatch"
  /\ op \in Todo(st)
  /\ op[1] = "write" \/ \A o \in Todo(st) : o[1] # "write"
  /\ SlotFree(Cardinality(Active(st)))
  /\ st' = [st EXCEPT ![op] = "calling"]
  /\ UNCHANGED <<envVars, remoteVars, pc, run, result, policyVars, authVars, cat, egErr,
                 waited, calls, firstFail, faults, log, snapVars>>

\* vc.Sys().PutPolicyWithContext(ctx, name, content)
PutPolicy(op) ==
  /\ cat = "policy"
  /\ op \in DOMAIN st
  /\ st[op] = "calling"
  /\ op[1] = "write"
  /\ calls' = [calls EXCEPT ![op] = @ + 1]
  /\ log' = Logged("policy", "write", op[2])
  /\ \/ /\ CallSucceeds(op)
        /\ remotePolicies' = Put(remotePolicies, op[2], localPolicies[op[2]])
     \/ /\ CallFails(op)
        /\ UNCHANGED remotePolicies
  /\ UNCHANGED <<envVars, remoteRoles, pc, run, result, policyVars, authVars, cat, egErr,
                 waited, snapVars>>

\* vc.Sys().DeletePolicyWithContext(ctx, existingPolicy)
DeletePolicy(op) ==
  /\ cat = "policy"
  /\ op \in DOMAIN st
  /\ st[op] = "calling"
  /\ op[1] = "delete"
  /\ calls' = [calls EXCEPT ![op] = @ + 1]
  /\ log' = Logged("policy", "delete", op[2])
  /\ \/ /\ CallSucceeds(op)
        /\ remotePolicies' = Remove(remotePolicies, op[2])
     \/ /\ CallFails(op)
        /\ UNCHANGED remotePolicies
  /\ UNCHANGED <<envVars, remoteRoles, pc, run, result, policyVars, authVars, cat, egErr,
                 waited, snapVars>>

\* The goroutine of a failed policy operation returns its error.
PolicyDone(op) ==
  /\ cat = "policy"
  /\ op \in DOMAIN st
  /\ GoroutineEnds(op)
  /\ UNCHANGED <<envVars, remoteVars, pc, run, result, policyVars, authVars, cat, waited,
                 calls, firstFail, faults, log, snapVars>>

\* eg.Wait() of applyPolicyChanges, and ApplyChanges going on to the auth phase
PolicyWait ==
  /\ pc = "policyBatch"
  /\ Todo(st) = {}
  /\ WaitDone(st, egErr)
  /\ waited' = TRUE
  /\ IF WaitErr(egErr) # NoOp
     THEN /\ result' = Failure("policy", WaitErr(egErr))
          /\ pc' = "done"
     ELSE /\ pc' = "listAuth"
          /\ UNCHANGED result
  /\ UNCHANGED <<envVars, remoteVars, run, policyVars, authVars, cat, st, egErr, calls,
                 firstFail, faults, log, snapVars>>

\* ------------------------------------------------------------ auth phase

\* vc.Sys().ListAuthWithContext(ctx)
ListAuth ==
  /\ pc = "listAuth"
  /\ log' = Logged("sys/auth", "list", "")
  /\ \/ /\ mountsLeft' = DOMAIN mountTypes
        /\ pc' = "nextMount"
        /\ UNCHANGED <<result, faults>>
     \/ /\ faults < MaxFaults
        /\ faults' = faults + 1
        /\ result' = Failure("auth", <<"list", "sys/auth">>)
        /\ pc' = "done"
        /\ UNCHANGED mountsLeft
  /\ UNCHANGED <<envVars, remoteVars, run, policyVars, mountName, prefix, localRoles,
                 secret, existingRoles, batchVars, snapVars>>

\* The default case of the switch: the mount is skipped.
SkipMount(m) ==
  /\ pc = "nextMount"
  /\ m \in mountsLeft
  /\ rolePathPrefix(mountTypes[m]) = Unsupported
  /\ mountsLeft' = mountsLeft \ {m}
  /\ UNCHANGED <<envVars, remoteVars, pc, run, result, policyVars, mountName, prefix,
                 localRoles, secret, existingRoles, batchVars, faults, log, snapVars>>

\* A mount of a supported type: filepath.WalkDir(localMountDir, ...) and the
\* check of its error.
ReadRoles(m) ==
  /\ pc = "nextMount"
  /\ m \in mountsLeft
  /\ rolePathPrefix(mountTypes[m]) # Unsupported
  /\ mountsLeft' = mountsLeft \ {m}
  /\ mountName' = TrimSuffix(m)
  /\ prefix' = rolePathPrefix(mountTypes[m])
  /\ LET w == WalkRoleDir(LocalDir(authDir, TrimSuffix(m), rolePathPrefix(mountTypes[m]))) IN
       IF RoleWalkFatal(w.err)
       THEN /\ result' = Failure("auth", <<"walk", w.err, TrimSuffix(m)>>)
            /\ pc' = "done"
            /\ UNCHANGED localRoles
       ELSE /\ localRoles' = w.files
            /\ pc' = "listRoles"
            /\ UNCHANGED result
  /\ UNCHANGED <<envVars, remoteVars, run, policyVars, secret, existingRoles, batchVars,
                 faults, log, snapVars>>

\* What the backend answers to a list of auth/<mount>/<segment>: no secret or
\* a secret without keys when nothing is stored there.
ListResponses(keys) ==
  IF keys = {}
  THEN {NoSecret, [present |-> TRUE, hasKeys |-> FALSE, keys |-> {}]}
  ELSE {[present |-> TRUE, hasKeys |-> TRUE, keys |-> keys]}

\* vc.Logical().ListWithContext(ctx, listPath) and the building of existingRoles
ListRoles ==
  /\ pc = "listRoles"
  /\ log' = Logged(mountName, "list", prefix)
  /\ \/ \E r \in ListResponses(KeysAt(remoteRoles, ListPath(mountName, prefix))) :
          /\ UNCHANGED faults
          /\ IF RoleListFatal(FALSE, r)
             THEN /\ result' = Failure("auth", <<"list", mountName>>)
                  /\ pc' = "done"
                  /\ UNCHANGED <<secret, existingRoles, batchVars>>
             ELSE /\ secret' = r
                  /\ existingRoles' = ExistingRoles(r)
                  /\ NewBatch(mountName, RoleWrites(localRoles)
                                           \cup RoleDeletes(ExistingRoles(r), localRoles))
                  /\ pc' = "roleBatch"
                  /\ UNCHANGED result
     \/ /\ faults < MaxFaults
        /\ faults' = faults + 1
        /\ RoleListFatal(TRUE, NoSecret)
        /\ result' = Failure("auth", <<"list", mountName>>)
        /\ pc' = "done"
        /\ UNCHANGED <<secret, existingRoles, batchVars>>
  /\ UNCHANGED <<envVars, remoteVars, run, policyVars, mountsLeft, mountName, prefix,
                 localRoles, snapVars>>

\* egMount.Go(...) of the two loops: the writes first, then the deletes.
RoleGo(op) ==
  /\ pc = "roleBatch"
  /\ op \in Todo(st)
  /\ op[1] = "write" \/ \A o \in Todo(st) : o[1] # "write"
  /\ SlotFree(Cardinality(Active(st)))
  /\ st' = [st EXCEPT ![op] = "calling"]
  /\ UNCHANGED <<envVars, remoteVars, pc, run, result, policyVars, authVars, cat, egErr,
                 waited, calls, firstFail, faults, log, snapVars>>

\* vc.Logical().WriteWithContext(ctx, writePath, data)
WriteRole(op) ==
  /\ cat # "policy"
  /\ op \in DOMAIN st
  /\ st[op] = "calling"
  /\ op[1] = "write"
  /\ calls' = [calls EXCEPT ![op] = @ + 1]
  /\ log' = Logged(mountName, "write", op[2])
  /\ \/ /\ CallSucceeds(op)
        /\ remoteRoles' = Put(remoteRoles, WritePath(mountName, prefix, op[2]),
                              localRoles[op[2]])
     \/ /\ CallFails(op)
        /\ UNCHANGED remoteRoles
  /\ UNCHANGED <<envVars, remotePolicies, pc, run, result, policyVars, authVars, cat,
                 egErr, waited, snapVars>>

\* vc.Logical().DeleteWithContext(ctx, deletePath)
DeleteRole(op) ==
  /\ cat # "policy"
  /\ op \in DOMAIN st
  /\ st[op] = "calling"
  /\ op[1] = "delete"
  /\ calls' = [calls EXCEPT ![op] = @ + 1]
  /\ log' = Logged(mountName, "delete", op[2])
  /\ \/ /\ CallSucceeds(op)
        /\ remoteRoles' = Remove(remoteRoles, DeletePath(mountName, prefix, op[2]))
     \/ /\ CallFails(op)
        /\ UNCHANGED remoteRoles
  /\ UNCHANGED <<envVars, remotePolicies, pc, run, result, policyVars, authVars, cat,
                 egErr, waited, snapVars>>

\* The goroutine of a failed role operation returns its error.
RoleDone(op) ==
  /\ cat # "policy"
  /\ op \in DOMAIN st
  /\ GoroutineEnds(op)
  /\ UNCHANGED <<envVars, remoteVars, pc, run, result, policyVars, authVars, cat, waited,
                 calls, firstFail, faults, log, snapVars>>

MountWaitRollingBack ==
  /\ pc = "roleBatch"
  /\ Todo(st) = {}
  /\ WaitDone(st, egErr)
  /\ waited' = TRUE
  /\ IF WaitErr(egErr) # NoOp
     THEN /\ result' = Failure("auth", WaitErr(egErr))
          /\ pc' = "done"
          /\ remoteRoles' = snapRoles
     ELSE /\ pc' = "nextMount"
          /\ UNCHANGED <<result, remoteRoles>>
  /\ UNCHANGED <<envVars, remotePolicies, run, policyVars, authVars, cat, st, egErr, calls,
                 firstFail, faults, log, snapVars>>

\* egMount.Wait() and the next iteration of the range over the mounts
MountWait ==
  /\ pc = "roleBatch"
  /\ Todo(st) = {}
  /\ WaitDone(st, egErr)
  /\ waited' = TRUE
  /\ IF WaitErr(egErr) # NoOp
     THEN /\ result' = Failure("auth", WaitErr(egErr))
          /\ pc' = "done"
     ELSE /\ pc' = "nextMount"
          /\ UNCHANGED result
  /\ UNCHANGED <<envVars, remoteVars, run, policyVars, authVars, cat, st, egErr, calls,
                 firstFail, faults, log, snapVars>>

\* The range over the mounts is exhausted: applyAuthChanges and ApplyChanges return nil.
AuthDone ==
  /\ pc = "nextMount"
  /\ mountsLeft = {}
  /\ result' = Success
  /\ pc' = "done"
  /\ UNCHANGED <<envVars, remoteVars, run, policyVars, authVars, batchVars, faults, log,
                 snapVars>>

\* ApplyChanges is invoked again on the unchanged local tree after a run that
\* returned nil (the idempotency step of TestApplyChanges).
Reapply ==
  /\ pc = "done"
  /\ result = Success
  /\ run < MaxRuns
  /\ run' = run + 1
  /\ snapPolicies' = remotePolicies
  /\ snapRoles' = remoteRoles
  /\ snapFaults' = faults
  /\ pc' = "listPolicies"
  /\ result' = Running
  /\ existingPolicies' = {}
  /\ localPolicies' = EmptyMap
  /\ mountsLeft' = {}
  /\ mountName' = ""
  /\ prefix' = ""
  /\ localRoles' = EmptyMap
  /\ secret' = NoSecret
  /\ existingRoles' = {}
  /\ cat' = ""
  /\ st' = NoBatch
  /\ egErr' = NoOp
  /\ waited' = FALSE
  /\ calls' = NoBatch
  /\ firstFail' = NoOp
  /\ UNCHANGED <<envVars, remoteVars, faults, log>>

Next ==
  \/ ListPolicies
  \/ ReadPolicies
  \/ \E op \in DOMAIN st : PolicyGo(op)
  \/ \E op \in DOMAIN st : PutPolicy(op)
  \/ \E op \in DOMAIN st : DeletePolicy(op)
  \/ \E op \in DOMAIN st : PolicyDone(op)
  \/ PolicyWait
  \/ ListAuth
  \/ \E m \in DOMAIN mountTypes : SkipMount(m)
  \/ \E m \in DOMAIN mountTypes : ReadRoles(m)
  \/ ListRoles
  \/ \E op \in DOMAIN st : RoleGo(op)
  \/ \E op \in DOMAIN st : WriteRole(op)
  \/ \E op \in DOMAIN st : DeleteRole(op)
  \/ \E op \in DOMAIN st : RoleDone(op)
  \/ MountWait
  \/ AuthDone
  \/ Reapply

Spec == Init /\ [][Next]_vars

\* The same program where no step that can be taken is put off for ever: the
\* scheduler runs every goroutine, and every remote call returns.
SpecLive == Init /\ [][Next]_vars /\ WF_vars(Next)

\* ------------------------------------------------------------------ claims

Returned == pc = "done"
ReturnedNil == pc = "done" /\ result = Success
CallsInFlight == {o \in DOMAIN st : st[o] = "calling"}
PolicyLog(kind) == {e[4] : e \in {x \in log : x[2] = "policy" /\ x[3] = kind}}

\* C1: when ApplyChanges returns nil, the remote policy set is the local file
\* names together with the protected names the backend held at the start of
\* the run that have no local file, every local name carries the body of its
\* file, and every other name the backend held is gone.
C1_PolicyEndState ==
  ReturnedNil =>
    LET L == FileNames(policyDir)
        R == DOMAIN snapPolicies
    IN /\ DOMAIN remotePolicies = L \cup ((R \cap {"root", "default"}) \ L)
       /\ \A i \in 1..Len(policyDir.entries) :
            remotePolicies[policyDir.entries[i].name] = policyDir.entries[i].content
       /\ \A n \in (R \ {"root", "default"}) \ L : n \notin DOMAIN remotePolicies

\* The scenario of the specification: local {p1, p2}, remote {p1, p3} (and
\* the protected names); after the first run p3 is gone and p1 is rewritten.
C1_Witness ==
  /\ ReturnedNil
  /\ run = 1
  /\ FileNames(policyDir) = {"p1", "p2"}
  /\ DOMAIN snapPolicies = {"p1", "p3", "root", "default"}
  /\ snapPolicies["p1"] = RemoteBody("p1")
  /\ remotePolicies["p1"] = LocalBody("p1")
  /\ "p3" \notin DOMAIN remotePolicies

\* C2: no delete of the policies "root" or "default" is ever dispatched or
\* issued, whatever the local tree and the remote listing are.
C2_NoProtectedDelete ==
  /\ PolicyLog("delete") \cap {"root", "default"} = {}
  /\ cat = "policy" => \A n \in {"root", "default"} : <<"delete", n>> \notin DOMAIN st

\* Both protected names are listed remotely, neither has a local file, and
\* the batch has deleted an ordinary name.
C2_Witness ==
  /\ cat = "policy"
  /\ waited
  /\ {"root", "default"} \subseteq existingPolicies
  /\ policyDir.exists
  /\ FileNames(policyDir) = {}
  /\ "p1" \in PolicyLog("delete")
  /\ {"root", "default"} \subseteq DOMAIN remotePolicies

\* C3: once the wait of a batch has returned, every operation of the batch
\* has been called exactly once and has finished, and if one of them failed
\* ApplyChanges has returned an error that one of the batch's operations
\* produced.
C3_PartialFailureIsolation ==
  waited =>
    /\ \A o \in DOMAIN st : calls[o] = 1 /\ st[o] \in {"doneOk", "doneFail"}
    /\ (\E o \in DOMAIN st : st[o] = "doneFail") =>
         /\ Returned
         /\ result.status = "error"
         /\ result.cause \in {o \in DOMAIN st : st[o] = "doneFail"}

\* A batch of more operations than the limit in which exactly one failed and
\* all the others succeeded.
C3_Witness ==
  /\ waited
  /\ Cardinality(DOMAIN st) > 5
  /\ Cardinality({o \in DOMAIN st : st[o] = "doneFail"}) = 1
  /\ Cardinality({o \in DOMAIN st : st[o] = "doneOk"}) = Cardinality(DOMAIN st) - 1

\* C4: at most 5 goroutines of a batch are active, hence at most 5 remote
\* write/delete calls are in flight, in every state.
C4_AtMostFiveInFlight ==
  /\ Cardinality(CallsInFlight) <= 5
  /\ Cardinality(Active(st)) <= 5

\* Five calls are in flight while the dispatcher still has operations to hand
\* to the group.
C4_Witness ==
  /\ Cardinality(CallsInFlight) = 5
  /\ Todo(st) # {}
  /\ Cardinality(DOMAIN st) > 5

\* The mounts of the scenarios that have a supported type: the key ListAuth
\* returns, the mount name and the path segment of its role-like objects.
SupportedMounts ==
  {t \in {<<"approle/", "approle", "role">>, <<"ldap/", "ldap", "groups">>} :
     t[1] \in DOMAIN mountTypes}

MountLog(mount, kind) == {e[4] : e \in {x \in log : x[1] = run /\ x[2] = mount /\ x[3] = kind}}

\* C5: a policy directory that does not exist is read as zero entries: the
\* policy phase does not fail on it and goes on to reconcile the remote
\* policies against an empty local mapping.
C5_MissingPolicyDirIsEmpty ==
  (~policyDir.exists /\ pc \notin {"listPolicies", "walkPolicies"}) =>
    /\ ~(result.status = "error" /\ result.cause = <<"walk", "notexist", "policy">>)
    /\ localPolicies = EmptyMap
    /\ cat = "policy" => DOMAIN st = Deletes(existingPolicies \ {"root", "default"})

\* C6: for a supported mount whose local directory does not exist, the walk
\* is not an error, the batch of the mount is one delete per name the backend
\* listed, "root" and "default" included, and when ApplyChanges returns nil
\* nothing is left under the mount's path.
C6_MissingMountDirDeletesAll ==
  \A t \in SupportedMounts :
    ~LocalDir(authDir, t[2], t[3]).exists =>
      /\ ~(result.status = "error" /\ result.cause = <<"walk", "notexist", t[2]>>)
      /\ (cat = t[2] /\ pc = "roleBatch") =>
           DOMAIN st = Deletes(KeysAt(snapRoles, <<t[2], t[3]>>))
      /\ ReturnedNil => KeysAt(remoteRoles, <<t[2], t[3]>>) = {}

\* The approle directory is missing, the backend held roles named "r1" and
\* "default" under the mount, and the first run has deleted both.
C6_Witness ==
  /\ ReturnedNil
  /\ run = 1
  /\ ~LocalDir(authDir, "approle", "role").exists
  /\ KeysAt(snapRoles, <<"approle", "role">>) = {"r1", "default"}
  /\ MountLog("approle", "delete") = {"r1", "default"}
  /\ KeysAt(remoteRoles, <<"approle", "role">>) = {}

\* C7: a run that follows a run that returned nil, on the same local tree,
\* returns nil unless the backend fails one of its calls; and when it returns
\* nil the backend's policies and roles are what they were when it started
\* and it has issued a write for every local policy and role file.
C7_Idempotence ==
  (run > 1 /\ Returned) =>
    /\ faults = snapFaults => result = Success
    /\ result = Success =>
         /\ remotePolicies = snapPolicies
         /\ remoteRoles = snapRoles
         /\ FileNames(policyDir) \subseteq MountLog("policy", "write")
         /\ \A t \in SupportedMounts :
              FileNames(LocalDir(authDir, t[2], t[3])) \subseteq MountLog(t[2], "write")

\* The second run has returned nil after rewriting two policies and a role
\* that the first run had already written.
C7_Witness ==
  /\ run = 2
  /\ ReturnedNil
  /\ FileNames(policyDir) = {"p1", "p2"}
  /\ MountLog("policy", "write") = {"p1", "p2"}
  /\ MountLog("approle", "write") = {"r1"}
  /\ remotePolicies = snapPolicies
  /\ snapPolicies["p1"] = LocalBody("p1")

\* C8: for the mount of the unsupported type "userpass" no remote call is
\* made under the mount and its remote objects stay as they were; no error
\* ApplyChanges returns names the mount; and a run that returns nil has
\* listed the roles of every mount of a supported type.
C8_UnsupportedMountSkipped ==
  "userpass/" \in DOMAIN mountTypes =>
    /\ \A e \in log : e[2] # "userpass"
    /\ \A p \in DOMAIN remoteRoles \cup DOMAIN UserpassRemote :
         p[1] = "userpass" =>
           /\ p \in DOMAIN remoteRoles
           /\ p \in DOMAIN UserpassRemote
           /\ remoteRoles[p] = UserpassRemote[p]
    /\ cat # "userpass"
    /\ result.status = "error" => "userpass" \notin {result.cause[i] : i \in 1..Len(result.cause)}
    /\ ReturnedNil => \A t \in SupportedMounts : MountLog(t[2], "list") = {t[3]}

\* The userpass mount has been skipped, the ldap mount is still to come, and
\* the approle mount has been reconciled.
C8_Witness ==
  /\ DOMAIN mountTypes = {"approle/", "ldap/", "userpass/"}
  /\ pc = "roleBatch"
  /\ mountsLeft = {}
  /\ cat = "ldap"
  /\ MountLog("approle", "write") # {}
  /\ MountLog("ldap", "write") # {}

\* C9: ApplyChanges returns nil only if the backend failed no call of the run
\* and no local walk failed; and once the wait of a batch has returned with
\* one of its operations failed, ApplyChanges has returned an error.
C9_NilOnlyIfAllSucceeded ==
  /\ ReturnedNil =>
       /\ faults = snapFaults
       /\ WalkPolicyDir(policyDir).err = ""
       /\ \A t \in SupportedMounts :
            WalkRoleDir(LocalDir(authDir, t[2], t[3])).err \in {"", "notexist"}
       /\ \A o \in DOMAIN st : st[o] = "doneOk"
  /\ (waited /\ \E o \in DOMAIN st : st[o] = "doneFail") =>
       Returned /\ result.status = "error"

\* A single delete of a mount's batch failed while the write of the batch
\* and the whole policy phase succeeded: ApplyChanges has returned an error.
C9_Witness ==
  /\ Returned
  /\ result.status = "error"
  /\ result.phase = "auth"
  /\ faults = snapFaults + 1
  /\ waited
  /\ Cardinality(DOMAIN st) >= 2
  /\ Cardinality({o \in DOMAIN st : st[o] = "doneFail"}) = 1
  /\ result.cause[1] = "delete"

\* C10: when ApplyChanges returns nil, for every mount of a supported type
\* the names the backend holds under auth/<mount>/<segment> are the names of
\* the local files of that directory, and each holds the data decoded from
\* its file.
C10_RolesMatchLocal ==
  ReturnedNil =>
    \A t \in SupportedMounts :
      LET d == LocalDir(authDir, t[2], t[3]) IN
        /\ KeysAt(remoteRoles, <<t[2], t[3]>>) = FileNames(d)
        /\ \A i \in 1..Len(d.entries) :
             remoteRoles[<<t[2], t[3], d.entries[i].name>>] = Unmarshal(d.entries[i].content).data

\* The approle mount has a role file whose content decodes to the policies
\* <<"p3">>; the backend held other data under that name and now holds the
\* decoded content, and the group of the ldap mount was written as well.
C10_Witness ==
  /\ ReturnedNil
  /\ run = 1
  /\ LocalDir(authDir, "approle", "role") =
       Dir(<<File("default", JsonP1Compact), File("r1", JsonP3)>>)
  /\ <<"approle", "role", "r1">> \in DOMAIN snapRoles
  /\ snapRoles[<<"approle", "role", "r1">>] = OldData
  /\ remoteRoles[<<"approle", "role", "r1">>] = RoleData(<<"p3">>)
  /\ remoteRoles[<<"approle", "role", "default">>] = RoleData(<<"p1">>)
  /\ <<"ldap", "groups", "g1">> \in DOMAIN remoteRoles

RunLog(category) == {e \in log : e[1] = run /\ e[2] = category}
Unfinished == {o \in DOMAIN st : st[o] \notin {"doneOk", "doneFail"}}
Failed == {o \in DOMAIN st : st[o] \in {"fail", "doneFail"}}

\* C11: categories are processed one after the other: while ApplyChanges is
\* anywhere but inside a batch every operation handed out so far has
\* finished, so no listing of the auth phase and no call for a mount starts
\* before the previous batch is complete; inside a batch the unfinished
\* operations are those of the one current category.
C11_CategoriesSequential ==
  /\ pc \notin {"policyBatch", "roleBatch"} => Unfinished = {}
  /\ pc = "policyBatch" => cat = "policy" /\ \A e \in log : e[1] = run => e[2] = "policy"
  /\ pc = "roleBatch" =>
       /\ cat = mountName
       /\ cat # "policy"
       /\ \A m \in mountsLeft : RunLog(TrimSuffix(m)) = {}

\* Calls of the ldap mount are in flight after the policy batch and the
\* batch of the approle mount have both run.
C11_Witness ==
  /\ pc = "roleBatch"
  /\ cat = "ldap"
  /\ CallsInFlight # {}
  /\ MountLog("policy", "write") # {}
  /\ MountLog("approle", "write") # {}
  /\ MountLog("approle", "delete") # {}

\* C12: once an operation of the policy batch has failed, or the policy
\* listing or walk has failed, no call of the auth phase is made in the run;
\* once an operation of a mount's batch has failed ApplyChanges does not
\* leave the batch except to return an error, and neither then nor after a
\* failed listing of a mount is any call made for a mount not yet visited;
\* a mount whose listing failed gets no write and no delete.
C12_FailStop ==
  /\ Failed # {} =>
       /\ pc \in {"policyBatch", "roleBatch", "done"}
       /\ Returned => result.status = "error"
       /\ cat = "policy" => \A e \in log : e[1] = run => e[2] = "policy"
       /\ \A m \in mountsLeft : RunLog(TrimSuffix(m)) = {}
  /\ (result.status = "error" /\ result.phase = "policy") =>
       \A e \in log : e[1] = run => e[2] = "policy"
  /\ (result.status = "error" /\ result.cause[1] = "list") =>
       /\ Returned
       /\ MountLog(result.cause[2], "write") = {}
       /\ MountLog(result.cause[2], "delete") = {}
       /\ \A m \in mountsLeft : RunLog(TrimSuffix(m)) = {}

\* A delete of the approle batch failed; the ldap mount, which has a local
\* group file, was not visited and no call was made for it.
C12_Witness ==
  /\ Returned
  /\ result.status = "error"
  /\ result.phase = "auth"
  /\ cat = "approle"
  /\ result.cause \in Failed
  /\ "ldap/" \in mountsLeft
  /\ LocalDir(authDir, "ldap", "groups").exists
  /\ RunLog("ldap") = {}

\* The classifier table of the specification: type, segment.
ClassifierTable ==
  { <<"aws", "roles">>, <<"gcp", "roles">>, <<"token", "roles">>,
    <<"azure", "role">>, <<"kubernetes", "role">>, <<"oidc", "role">>,
    <<"oci", "role">>, <<"saml", "role">>, <<"approle", "role">>,
    <<"kerberos", "groups">>, <<"ldap", "groups">>, <<"okta", "groups">>,
    <<"radius", "users">> }

SegmentsOf(type) == {q[2] : q \in {x \in ClassifierTable : x[1] = type}}

\* C13: a mount is listed, read and written under the segment the table
\* gives for its exact type string and under no other; a mount whose type is
\* not in the table gets no segment: nothing is listed, written or deleted
\* under it and it is never the mount of a batch.
C13_ClassifierTable ==
  \A m \in DOMAIN mountTypes :
    LET name == TrimSuffix(m)
        segs == SegmentsOf(mountTypes[m])
    IN /\ \A e \in log : e[2] = name =>
            /\ segs # {}
            /\ e[3] = "list" => e[4] \in segs
       /\ (mountName = name /\ pc \in {"listRoles", "roleBatch"}) =>
            /\ prefix \in segs
            /\ pc = "roleBatch" =>
                 DOMAIN localRoles = FileNames(LocalDir(authDir, name, prefix))
       /\ \A q \in DOMAIN remoteRoles : (q[1] = name /\ q \notin DOMAIN snapRoles) => q[2] \in segs
       /\ \A q \in DOMAIN snapRoles : (q[1] = name /\ q \notin DOMAIN remoteRoles) => q[2] \in segs

\* A mount of type "token": its batch writes the file of the local "roles"
\* directory and deletes the object listed under "roles".
C13_Witness ==
  /\ "m/" \in DOMAIN mountTypes
  /\ mountTypes["m/"] = "token"
  /\ cat = "m"
  /\ prefix = "roles"
  /\ DOMAIN st = {<<"write", "roles">>, <<"delete", "old">>}
  /\ waited

\* C14 as claimed: the error a batch returns is the error of the first of its
\* operations whose remote call failed.
C14_FirstCompletedWins ==
  (waited /\ egErr # NoOp) => result.cause = firstFail

\* C14: the group's error is written at most once and never overwritten: it
\* is set by the first failed goroutine to hand its error to the group, it
\* is the error of an operation of the current batch that failed, and it is
\* the error ApplyChanges returns when the wait of the batch returns.
C14_FirstErrorWins ==
  [][ /\ egErr # NoOp => egErr' = egErr
      /\ egErr = NoOp =>
           \A o \in DOMAIN st :
             (st[o] = "fail" /\ o \in DOMAIN st' /\ st'[o] = "doneFail") => egErr' = o
      /\ egErr' # NoOp => egErr' \in DOMAIN st' /\ st'[egErr'] = "doneFail"
      /\ (waited' /\ egErr' # NoOp) => result'.status = "error" /\ result'.cause = egErr'
    ]_vars

\* Two operations of a batch failed; the one whose call failed first handed
\* its error to the group second, and the other's error was returned.
C14_Witness ==
  /\ waited
  /\ Cardinality({o \in DOMAIN st : st[o] = "doneFail"}) = 2
  /\ egErr # NoOp
  /\ egErr # firstFail
  /\ result.cause = egErr

\* ---------------------------------------------------------------- C15
\* The local names of the batch's category.
BatchLocalNames ==
  IF cat = "policy" THEN DOMAIN localPolicies ELSE DOMAIN localRoles
\* The remote names listed for the batch's category.
BatchRemoteNames ==
  IF cat = "policy" THEN existingPolicies ELSE existingRoles
OpsOf(kind) == {o \in DOMAIN st : o[1] = kind}
TargetsOf(kind) == {o[2] : o \in OpsOf(kind)}

\* C15: in every batch the names written and the names deleted are disjoint
\* and every name is the target of at most one operation: the names written
\* are the local names, the names deleted are remote names that are not local.
C15_WriteDeleteDisjoint ==
  pc \in {"policyBatch", "roleBatch"} =>
    /\ TargetsOf("write") \cap TargetsOf("delete") = {}
    /\ \A o1, o2 \in DOMAIN st : o1[2] = o2[2] => o1 = o2
    /\ TargetsOf("write") = BatchLocalNames
    /\ TargetsOf("delete") \subseteq BatchRemoteNames \ BatchLocalNames

\* A mount's batch with writes and deletes where a local name is also remote.
C15_Witness ==
  /\ cat \notin {"", "policy"}
  /\ pc = "roleBatch"
  /\ TargetsOf("write") # {}
  /\ TargetsOf("delete") # {}
  /\ BatchRemoteNames \cap BatchLocalNames # {}

\* ---------------------------------------------------------------- C16
\* The local directory the batch's category is read from.
BatchDir ==
  IF cat = "policy" THEN policyDir ELSE LocalDir(authDir, mountName, prefix)
\* The remote content under a name of the batch's category when the run began.
HadContent(name, content) ==
  IF cat = "policy"
  THEN name \in DOMAIN snapPolicies /\ snapPolicies[name] = content
  ELSE /\ RolePath(mountName, prefix, name) \in DOMAIN snapRoles
       /\ snapRoles[RolePath(mountName, prefix, name)] = content

\* C16: a batch has a write for every file of the category's local directory,
\* protected names included; no write is called twice, and when the batch's
\* wait has returned every one of them has been called exactly once, whatever
\* the backend held under the name.
C16_FullOverwrite ==
  /\ (pc \in {"policyBatch", "roleBatch"} \/ (waited /\ cat \in {"policy", mountName})) =>
       Writes(FileNames(BatchDir)) \subseteq DOMAIN st
  /\ \A o \in OpsOf("write") : calls[o] <= 1
  /\ waited => \A o \in OpsOf("write") :
                 /\ calls[o] = 1
                 /\ <<run, cat, "write", o[2]>> \in log

\* The second run's policy batch is over: the local file "root", whose content
\* the backend already held, has been written once more.
C16_Witness ==
  /\ run = 2
  /\ cat = "policy"
  /\ waited
  /\ "root" \in FileNames(policyDir)
  /\ HadContent("root", localPolicies["root"])
  /\ calls[<<"write", "root">>] = 1

\* ---------------------------------------------------------------- C17
\* The operations of the batch whose call has succeeded.
Succeeded == {o \in DOMAIN st : st[o] = "doneOk"}
NamesOf(ops, kind) == {o[2] : o \in {x \in ops : x[1] = kind}}

\* The policies the backend holds when the operations ops have been applied to
\* base, in any order.
PoliciesAfter(base, ops) ==
  LET w == NamesOf(ops, "write")
      d == NamesOf(ops, "delete")
  IN [n \in ((DOMAIN base) \ d) \cup w |->
        IF n \in w THEN localPolicies[n] ELSE base[n]]

\* The objects of one mount.
OnMount(roles, mount) == [q \in {x \in DOMAIN roles : x[1] = mount} |-> roles[q]]

\* The objects of the batch's mount when the operations ops have been applied
\* to base, in any order.
RolesAfter(base, ops) ==
  LET w == {RolePath(mountName, prefix, n) : n \in NamesOf(ops, "write")}
      d == {RolePath(mountName, prefix, n) : n \in NamesOf(ops, "delete")}
  IN [q \in ((DOMAIN base) \ d) \cup w |->
        IF q \in w THEN localRoles[q[3]] ELSE base[q]]

\* C17: what the backend holds during and after a batch is a function of what
\* it held when the batch began and of the set of operations that have
\* succeeded, not of the order in which they ran; so when all operations of a
\* batch have succeeded the backend holds one and the same state under every
\* interleaving.
C17_OrderIndependent ==
  /\ cat = "policy" =>
       /\ remotePolicies = PoliciesAfter(snapPolicies, Succeeded)
       /\ (waited /\ Succeeded = DOMAIN st) =>
            remotePolicies = PoliciesAfter(snapPolicies, DOMAIN st)
  /\ (cat \notin {"", "policy"} /\ cat = mountName) =>
       /\ OnMount(remoteRoles, cat) = RolesAfter(OnMount(snapRoles, cat), Succeeded)
       /\ (waited /\ Succeeded = DOMAIN st) =>
            OnMount(remoteRoles, cat) = RolesAfter(OnMount(snapRoles, cat), DOMAIN st)

\* A mount's batch of several writes and a delete, dispatched through the
\* limited group, has completed with every operation successful.
C17_Witness ==
  /\ cat \notin {"", "policy"}
  /\ cat = mountName
  /\ waited
  /\ Succeeded = DOMAIN st
  /\ Cardinality(OpsOf("write")) >= 2
  /\ OpsOf("delete") # {}

\* ---------------------------------------------------------------- C18
\* C18: when every step that can be taken is eventually taken (every remote
\* call returns, every goroutine is scheduled), ApplyChanges returns, also for
\* batches of more operations than the group admits at once; and when the
\* wait of a batch has returned, every operation of the batch has been
\* dispatched and has finished.
C18_TerminatesAndDrains ==
  /\ (pc # "done") ~> (pc = "done")
  /\ [](waited => (Todo(st) = {} /\ Unfinished = {}))

\* The wait of a batch of more than five operations has returned, with an
\* error, after the dispatcher had to block for a free slot.
C18_Witness ==
  /\ waited
  /\ Cardinality(DOMAIN st) > Limit
  /\ egErr # NoOp
  /\ pc = "done"
  /\ Unfinished = {}

\* ---------------------------------------------------------------- C19
\* A policy directory with a file that cannot be read.
BadPolicyDir(dir) ==
  dir.exists /\ \E i \in 1..Len(dir.entries) : ~dir.entries[i].readable
\* A role directory with a file that cannot be read or is not a JSON object.
BadRoleDir(dir) ==
  dir.exists /\ \E i \in 1..Len(dir.entries) :
                  ~dir.entries[i].readable \/ ~Unmarshal(dir.entries[i].content).ok

\* C19: with an unreadable file in the policy directory no policy is written
\* or deleted, and ApplyChanges stops with the walk's error before it reaches
\* the auth phase; with an unreadable or malformed file in the directory of a
\* supported mount nothing is written or deleted under that mount, the files
\* read before the bad one included, ApplyChanges returns the walk's error as
\* soon as it reads the mount, and it never returns nil.
C19_LocalReadFailureAborts ==
  /\ BadPolicyDir(policyDir) =>
       /\ \A e \in log : e[2] = "policy" => e[3] = "list"
       /\ remotePolicies = snapPolicies
       /\ pc \in {"listPolicies", "walkPolicies", "done"}
       /\ cat = ""
       /\ pc = "done" => result.status = "error"
  /\ \A m \in DOMAIN mountTypes :
       LET seg == rolePathPrefix(mountTypes[m])
           name == TrimSuffix(m)
       IN (seg # Unsupported /\ BadRoleDir(LocalDir(authDir, name, seg))) =>
            /\ \A e \in log : e[2] = name => e[3] \notin {"write", "delete"}
            /\ OnMount(remoteRoles, name) = OnMount(snapRoles, name)
            /\ cat # name
            /\ mountName = name =>
                 /\ pc = "done"
                 /\ result \in {Failure("auth", <<"walk", "read", name>>),
                                Failure("auth", <<"walk", "decode", name>>)}
            /\ pc = "done" => result.status = "error"

\* The role file r2 of mount approle is malformed: ApplyChanges has returned
\* the walk's error, the policies have been written, r1 has not.
C19_Witness ==
  /\ pc = "done"
  /\ result = Failure("auth", <<"walk", "decode", "approle">>)
  /\ "r1" \in FileNames(LocalDir(authDir, "approle", "role"))
  /\ <<"approle", "role", "r1">> \in DOMAIN remoteRoles
  /\ remoteRoles[<<"approle", "role", "r1">>] = OldData
  /\ PolicyLog("write") # {}
  /\ MountLog("approle", "write") = {}

\* ---------------------------------------------------------------- C20
\* The list response of the batch's mount was absent: no secret, or no keys.
ListingAbsent == ~secret.present \/ ~secret.hasKeys

\* C20: an absent list response makes the remote name set of the mount empty:
\* the mount's batch is built, has no delete and has a write for every local
\* entry; ApplyChanges returns a list error for a mount only when the list
\* call itself failed, and after the batch it goes on to the mounts left.
C20_AbsentListingIsEmpty ==
  /\ (cat = mountName /\ cat \notin {"", "policy"} /\ ListingAbsent) =>
       /\ existingRoles = {}
       /\ OpsOf("delete") = {}
       /\ TargetsOf("write") = DOMAIN localRoles
       /\ \A e \in log : (e[1] = run /\ e[2] = cat) => e[3] # "delete"
  /\ (pc = "done" /\ result.status = "error" /\ result.cause = <<"list", mountName>>) =>
       faults = snapFaults + 1
  /\ ReturnedNil =>
       \A m \in DOMAIN mountTypes :
         rolePathPrefix(mountTypes[m]) # Unsupported =>
           <<run, TrimSuffix(m), "list", rolePathPrefix(mountTypes[m])>> \in log

\* The list of mount approle returned no secret: its local roles have been
\* written, nothing deleted, the batch is over and mount ldap is still to come.
C20_Witness ==
  /\ pc = "nextMount"
  /\ cat = "approle"
  /\ mountName = "approle"
  /\ ~secret.present
  /\ waited
  /\ egErr = NoOp
  /\ "ldap/" \in mountsLeft
  /\ MountLog("approle", "write") = DOMAIN localRoles
  /\ localRoles # EmptyMap

\* ---------------------------------------------------------------- C21
\* The operations of a category that have succeeded in the current run: those
\* of the batch at hand by their status, those of a batch that was waited for
\* without an error by the calls made.
SucceededIn(category) ==
  IF category = cat THEN Succeeded
  ELSE {<<e[3], e[4]>> : e \in {x \in RunLog(category) : x[3] \in {"write", "delete"}}}

\* The role paths written or deleted with success in the current run.
RolePathsDone(kind) ==
  UNION {{RolePath(TrimSuffix(m), rolePathPrefix(mountTypes[m]), n) :
            n \in NamesOf(SucceededIn(TrimSuffix(m)), kind)} :
         m \in {x \in DOMAIN mountTypes : rolePathPrefix(mountTypes[x]) # Unsupported}}

\* The decoded content of the local role file behind a role path.
LocalRoleAt(q) == WalkRoleDir(LocalDir(authDir, q[1], q[2])).files[q[3]]

\* The run's starting roles changed by exactly the succeeded operations.
RolesKept ==
  [q \in ((DOMAIN snapRoles) \ RolePathsDone("delete")) \cup RolePathsDone("write") |->
     IF q \in RolePathsDone("write") THEN LocalRoleAt(q) ELSE snapRoles[q]]

\* C21: when ApplyChanges has returned an error, the backend holds what it
\* held when the run began changed by exactly the writes and deletes that
\* succeeded, in the policy phase, in earlier mounts and in the failing batch;
\* nothing was called twice and no name was both written and deleted.
C21_NoRollback ==
  (pc = "done" /\ result.status = "error") =>
    /\ remotePolicies = PoliciesAfter(snapPolicies, SucceededIn("policy"))
    /\ remoteRoles = RolesKept
    /\ \A o \in DOMAIN calls : calls[o] <= 1
    /\ \A e1, e2 \in log :
         (e1[1] = run /\ e2[1] = run /\ e1[2] = e2[2] /\ e1[4] = e2[4]
            /\ e1[3] \in {"write", "delete"} /\ e2[3] \in {"write", "delete"}) => e1 = e2

\* A mount's batch has failed with one operation successful and one not,
\* after the policies and another mount's roles had been written.
C21_Witness ==
  /\ pc = "done"
  /\ result.status = "error"
  /\ result.phase = "auth"
  /\ cat \notin {"", "policy"}
  /\ Succeeded # {}
  /\ Failed # {}
  /\ PolicyLog("write") # {}
  /\ \E e \in log : e[1] = run /\ e[2] \notin {"policy", "sys/auth", cat} /\ e[3] = "write"
  /\ remoteRoles # snapRoles

====
